---- MODULE Spec2Model ----
(***************************************************************************)
(* Job Scout Agent: the classification-and-persistence pipeline.           *)
(*   utils/gemini.js  classifyJob, performFallbackClassification,          *)
(*                    chunkArray, classifyAndInsertInBatches               *)
(*   utils/sheets.js  initializeSheet, insertJobs,                         *)
(*                    applyConditionalFormatting                           *)
(* Three specifications share the variables:                               *)
(*   SpecClassify  one classifyJob call on drawn inputs                    *)
(*   SpecInsert    a sequence of insertJobs calls on one spreadsheet       *)
(*   SpecPipeline  one classifyAndInsertInBatches run                      *)
(***************************************************************************)
EXTENDS Integers, Sequences, FiniteSets, TLC

VARIABLES
    apiKey,          \* process.env.GEMINI_API_KEY is set
    credentials,     \* process.env.GOOGLE_SERVICE_ACCOUNT_JSON is set and parses
    cjArgs,          \* arguments and endpoint reply of the classifyJob call
    cjOut,           \* what that classifyJob call did
    sheet,           \* the spreadsheet: its rows, first row first
    rules,           \* the spreadsheet's conditional format rules
    headerStyled,    \* the header formatting request was applied
    ijLog,           \* the insertJobs calls made so far, oldest first
    pc,              \* position of classifyAndInsertInBatches
    jobs,            \* its first argument
    batchSize,       \* its second argument
    batches,         \* chunkArray(jobs, batchSize)
    b,               \* index of the current batch (0-based, as in the code)
    i,               \* index in the current batch (0-based)
    classifiedBatch, \* classified postings of the current batch
    allResults,      \* classified postings of the finished batches
    outcome,         \* how the run ended
    events,          \* what the run did, in order
    writers,         \* the insertJobs calls in flight at the same time
    sheetInits       \* the initializeSheet calls made on their own, oldest first

vars == <<apiKey, credentials, cjArgs, cjOut, sheet, rules, headerStyled, ijLog,
          pc, jobs, batchSize, batches, b, i, classifiedBatch, allResults,
          outcome, events, writers,
          sheetInits>>

classifyVars == <<cjArgs, cjOut>>
storeVars == <<sheet, rules, headerStyled, ijLog>>
pipelineVars == <<pc, jobs, batchSize, batches, b, i, classifiedBatch,
                  allResults, outcome, events>>

----------------------------------------------------------------------------
(* Strings, as JavaScript computes on them *)

UpperCaseLetters == "ABCDEFGHIJKLMNOPQRSTUVWXYZ"
LowerCaseLetters == "abcdefghijklmnopqrstuvwxyz"

\* one character of String.prototype.toLowerCase
lowerChar(c) ==
    IF \E n \in 1..Len(UpperCaseLetters) : SubSeq(UpperCaseLetters, n, n) = c
    THEN LET n == CHOOSE n \in 1..Len(UpperCaseLetters) :
                      SubSeq(UpperCaseLetters, n, n) = c
         IN SubSeq(LowerCaseLetters, n, n)
    ELSE c

\* String.prototype.toLowerCase, character by character (by halves)
RECURSIVE toLowerCase(_)
toLowerCase(t) ==
    IF Len(t) = 0 THEN ""
    ELSE IF Len(t) = 1 THEN lowerChar(t)
    ELSE LET half == Len(t) \div 2
         IN toLowerCase(SubSeq(t, 1, half)) \o toLowerCase(SubSeq(t, half + 1, Len(t)))

\* String.prototype.includes: k occurs in t as a substring
includes(t, k) ==
    \E n \in 1..(Len(t) - Len(k) + 1) : SubSeq(t, n, n + Len(k) - 1) = k

\* String.prototype.substring(0, n)
substring(t, n) == IF Len(t) <= n THEN t ELSE SubSeq(t, 1, n)

Digits == "0123456789"

\* a non-negative number in a template literal
RECURSIVE numberText(_)
numberText(n) ==
    IF n < Len(Digits) THEN SubSeq(Digits, n + 1, n + 1)
    ELSE numberText(n \div Len(Digits))
             \o SubSeq(Digits, (n % Len(Digits)) + 1, (n % Len(Digits)) + 1)

\* Array.prototype.join
RECURSIVE join(_, _)
join(arr, sep) ==
    IF Len(arr) = 0 THEN ""
    ELSE IF Len(arr) = 1 THEN arr[1]
    ELSE arr[1] \o sep \o join(Tail(arr), sep)

\* the elements of an array
Elements(arr) == {arr[n] : n \in 1..Len(arr)}

\* obj.f || d for a string field f: d when f is missing or empty
OrDefault(obj, f, d) ==
    IF f \in DOMAIN obj /\ obj[f] /= "" THEN obj[f] ELSE d

\* obj.f || d for an array field f: d when f is missing
ArrayOrDefault(obj, f, d) == IF f \in DOMAIN obj THEN obj[f] ELSE d

\* !obj.f for a string field f
Falsy(obj, f) == f \notin DOMAIN obj \/ obj[f] = ""

----------------------------------------------------------------------------
(* utils/gemini.js: the classifier *)

PromptDescriptionChars == 2000
QuotaExceededStatus == 429
QuotaBackoffMs == 2000

goodFitKeywords ==
    <<"node.js", "nodejs", "express", "react", "mongodb", "postgresql",
      "mern", "pern", "javascript", "typescript", "docker", "aws">>

\* the bad-fit keywords without "java"
badKeywordsWithoutJava ==
    <<"php", "spring", ".net", "c#", "python", "django", "senior",
      "3+ years", "4+ years", "5+ years">>

badKeywords ==
    <<"php", "java", "spring", ".net", "c#", "python", "django", "senior",
      "3+ years", "4+ years", "5+ years">>

validClassifications == <<"GOOD_FIT", "MAYBE_FIT", "IGNORE">>

\* the fallback classifier without the bad-fit test of line 212
performFallbackClassificationLax(jobTitle, jobDescription) ==
    LET text == toLowerCase(jobTitle \o " " \o jobDescription)
        goodMatches == SelectSeq(goodFitKeywords, LAMBDA keyword : includes(text, keyword))
        badMatches == SelectSeq(badKeywords, LAMBDA keyword : includes(text, keyword))
    IN  [success |-> TRUE,
         classification |->
             IF Len(goodMatches) >= 2 THEN "GOOD_FIT"
             ELSE IF Len(goodMatches) >= 1 THEN "MAYBE_FIT"
             ELSE "IGNORE",
         summary |->
             IF Len(goodMatches) >= 2
             THEN "Matches key technologies: " \o join(goodMatches, ", ")
             ELSE IF Len(goodMatches) >= 1
             THEN "Partial match with some relevant skills: " \o join(goodMatches, ", ")
             ELSE "Fallback classification - unable to process with AI",
         matchedSkills |-> goodMatches,
         concerns |-> badMatches,
         experienceLevel |-> "unclear",
         fallback |-> TRUE]

\* lines 172-231
performFallbackClassification(jobTitle, jobDescription) ==
    LET text == toLowerCase(jobTitle \o " " \o jobDescription)
        goodMatches == SelectSeq(goodFitKeywords, LAMBDA keyword : includes(text, keyword))
        badMatches == SelectSeq(badKeywords, LAMBDA keyword : includes(text, keyword))
    IN  [success |-> TRUE,
         classification |->
             IF Len(goodMatches) >= 2 /\ Len(badMatches) = 0 THEN "GOOD_FIT"
             ELSE IF Len(goodMatches) >= 1 THEN "MAYBE_FIT"
             ELSE "IGNORE",
         summary |->
             IF Len(goodMatches) >= 2 /\ Len(badMatches) = 0
             THEN "Matches key technologies: " \o join(goodMatches, ", ")
             ELSE IF Len(goodMatches) >= 1
             THEN "Partial match with some relevant skills: " \o join(goodMatches, ", ")
             ELSE "Fallback classification - unable to process with AI",
         matchedSkills |-> goodMatches,
         concerns |-> badMatches,
         experienceLevel |-> "unclear",
         fallback |-> TRUE]

\* String.prototype.startsWith at 1-based position n
startsWithAt(t, n, k) ==
    n + Len(k) - 1 <= Len(t) /\ SubSeq(t, n, n + Len(k) - 1) = k

\* t.replace(/<marker>\n?/g, ""): every marker, left to right, with the
\* newline after it if any
RECURSIVE removeMarker(_, _)
removeMarker(t, marker) ==
    IF ~includes(t, marker) THEN t
    ELSE LET at == CHOOSE n \in 1..Len(t) :
                       /\ startsWithAt(t, n, marker)
                       /\ \A m \in 1..(n - 1) : ~startsWithAt(t, m, marker)
             after == IF startsWithAt(t, at + Len(marker), "\n")
                      THEN at + Len(marker) + 1 ELSE at + Len(marker)
         IN SubSeq(t, 1, at - 1) \o removeMarker(SubSeq(t, after, Len(t)), marker)

WhiteSpace == {" ", "\n"}

isBlank(t) == \A n \in 1..Len(t) : SubSeq(t, n, n) \in WhiteSpace

\* String.prototype.trim
trim(t) ==
    IF isBlank(t) THEN ""
    ELSE LET first == CHOOSE n \in 1..Len(t) :
                          /\ SubSeq(t, n, n) \notin WhiteSpace
                          /\ isBlank(SubSeq(t, 1, n - 1))
             last == CHOOSE n \in 1..Len(t) :
                         /\ SubSeq(t, n, n) \notin WhiteSpace
                         /\ isBlank(SubSeq(t, n + 1, Len(t)))
         IN SubSeq(t, first, last)

\* the markdown code-fence marker, three backticks; a TLA+ string cannot hold
\* a backtick, so "~" stands for it in the reply texts of the model
FenceMarker == "~~~"

\* lines 119-122: strip the markdown code-fence markers
stripFences(aiResponse) ==
    trim(removeMarker(removeMarker(aiResponse, FenceMarker \o "json"), FenceMarker))

(* JSON.parse on the JSON texts the model's endpoint can send: the value of   *)
(* each text, null or an object; a field the object lacks is not in DOMAIN    *)
(* fields. Any other text is rejected.                                        *)
JsonTexts ==
    { [text |-> "null", value |-> [kind |-> "null"]],
      [text |-> "{\"classification\":\"GOOD_FIT\",\"summary\":\"fits\",\"matchedSkills\":[\"react\"],\"concerns\":[],\"experienceLevel\":\"junior\"}",
       value |-> [kind |-> "object",
                  fields |-> [classification |-> "GOOD_FIT", summary |-> "fits",
                              matchedSkills |-> <<"react">>, concerns |-> <<>>,
                              experienceLevel |-> "junior"]]],
      [text |-> "{\"classification\":\"IGNORE\",\"summary\":\"senior role\"}",
       value |-> [kind |-> "object",
                  fields |-> [classification |-> "IGNORE", summary |-> "senior role"]]],
      [text |-> "{\"classification\":\"PERFECT_FIT\",\"summary\":\"great\",\"matchedSkills\":[\"aws\"],\"concerns\":[\"remote\"]}",
       value |-> [kind |-> "object",
                  fields |-> [classification |-> "PERFECT_FIT", summary |-> "great",
                              matchedSkills |-> <<"aws">>, concerns |-> <<"remote">>]]],
      [text |-> "{\"classification\":\"good_fit\",\"summary\":\"fits\"}",
       value |-> [kind |-> "object",
                  fields |-> [classification |-> "good_fit", summary |-> "fits"]]],
      [text |-> "{\"classification\":\"MAYBE_FIT\"}",
       value |-> [kind |-> "object", fields |-> [classification |-> "MAYBE_FIT"]]],
      [text |-> "{\"classification\":\"\",\"summary\":\"fits\"}",
       value |-> [kind |-> "object",
                  fields |-> [classification |-> "", summary |-> "fits"]]],
      [text |-> "{\"summary\":\"fits\"}",
       value |-> [kind |-> "object", fields |-> [summary |-> "fits"]]] }

JSONparse(text) ==
    IF \E e \in JsonTexts : e.text = text
    THEN [thrown |-> FALSE, value |-> (CHOOSE e \in JsonTexts : e.text = text).value]
    ELSE [thrown |-> TRUE]

\* lines 124-129: the reply does not parse to an object with both fields
replyUnusable(parsed) ==
    \/ parsed.thrown
    \/ parsed.value.kind = "null"
    \/ Falsy(parsed.value.fields, "classification")
    \/ Falsy(parsed.value.fields, "summary")

\* lines 116-156: the inner try/catch of classifyJob, labels passed through
parseReplyUnchecked(jobTitle, jobDescription, aiResponse) ==
    LET cleanedResponse == stripFences(aiResponse)
        parsed == JSONparse(cleanedResponse)
        result == parsed.value.fields
    IN  IF replyUnusable(parsed)
        THEN performFallbackClassification(jobTitle, jobDescription)
        ELSE [success |-> TRUE,
              classification |-> result.classification,
              summary |-> result.summary,
              matchedSkills |-> ArrayOrDefault(result, "matchedSkills", <<>>),
              concerns |-> ArrayOrDefault(result, "concerns", <<>>),
              experienceLevel |-> OrDefault(result, "experienceLevel", "unclear")]

\* the inner try/catch with an unknown label sent to the fallback classifier
parseReplyStrict(jobTitle, jobDescription, aiResponse) ==
    LET cleanedResponse == stripFences(aiResponse)
        parsed == JSONparse(cleanedResponse)
        result == parsed.value.fields
    IN  IF replyUnusable(parsed)
           \/ result.classification \notin Elements(validClassifications)
        THEN performFallbackClassification(jobTitle, jobDescription)
        ELSE [success |-> TRUE,
              classification |-> result.classification,
              summary |-> result.summary,
              matchedSkills |-> ArrayOrDefault(result, "matchedSkills", <<>>),
              concerns |-> ArrayOrDefault(result, "concerns", <<>>),
              experienceLevel |-> OrDefault(result, "experienceLevel", "unclear")]

\* the inner try/catch without the required-fields test of lines 127-129
parseReplyLenient(jobTitle, jobDescription, aiResponse) ==
    LET cleanedResponse == stripFences(aiResponse)
        parsed == JSONparse(cleanedResponse)
    IN  IF parsed.thrown \/ parsed.value.kind = "null"
        THEN performFallbackClassification(jobTitle, jobDescription)
        ELSE LET result == parsed.value.fields
             IN [success |-> TRUE,
                 classification |->
                     IF OrDefault(result, "classification", "") \in Elements(validClassifications)
                     THEN result.classification
                     ELSE "MAYBE_FIT",
                 summary |-> OrDefault(result, "summary", ""),
                 matchedSkills |-> ArrayOrDefault(result, "matchedSkills", <<>>),
                 concerns |-> ArrayOrDefault(result, "concerns", <<>>),
                 experienceLevel |-> OrDefault(result, "experienceLevel", "unclear")]

\* lines 116-156: the inner try/catch of classifyJob
parseReply(jobTitle, jobDescription, aiResponse) ==
    LET cleanedResponse == stripFences(aiResponse)
        parsed == JSONparse(cleanedResponse)
        result == parsed.value.fields
    IN  IF replyUnusable(parsed)
        THEN performFallbackClassification(jobTitle, jobDescription)
        ELSE [success |-> TRUE,
              classification |->
                  IF result.classification \in Elements(validClassifications)
                  THEN result.classification
                  ELSE "MAYBE_FIT",
              summary |-> result.summary,
              matchedSkills |-> ArrayOrDefault(result, "matchedSkills", <<>>),
              concerns |-> ArrayOrDefault(result, "concerns", <<>>),
              experienceLevel |-> OrDefault(result, "experienceLevel", "unclear")]

\* the body of the outer try with a quota reply thrown like any other HTTP error
classifyJobTryQuotaThrown(jobTitle, jobDescription, reply) ==
    CASE reply.kind = "network" ->
            [thrown |-> TRUE, message |-> "fetch failed", backoffs |-> <<>>]
      [] reply.kind = "http" ->
            [thrown |-> TRUE, backoffs |-> <<>>,
             message |-> "Gemini API error: " \o numberText(reply.status) \o " - " \o reply.errorText]
      [] reply.kind = "badbody" ->
            [thrown |-> TRUE, message |-> "Unexpected end of JSON input", backoffs |-> <<>>]
      [] reply.kind = "nocandidates" ->
            [thrown |-> TRUE, message |-> "Invalid response from Gemini API", backoffs |-> <<>>]
      [] reply.kind = "text" /\ reply.text = "" ->
            [thrown |-> TRUE, message |-> "Invalid response from Gemini API", backoffs |-> <<>>]
      [] reply.kind = "text" /\ reply.text /= "" ->
            [thrown |-> FALSE, backoffs |-> <<>>,
             value |-> parseReply(jobTitle, jobDescription, trim(reply.text))]

(* lines 49-156: the body of the outer try. reply is what the endpoint did:   *)
(*   kind "network"      fetch rejects                                        *)
(*   kind "http"         response.ok is false, with reply.status              *)
(*   kind "badbody"      response.json() rejects                              *)
(*   kind "nocandidates" the body has no candidates                           *)
(*   kind "text"         the body carries the text reply.text                 *)
(* The result says whether the body threw, and with which message, or         *)
(* returned, and what; backoffs lists the quota waits, in milliseconds.       *)
classifyJobTry(jobTitle, jobDescription, reply) ==
    CASE reply.kind = "network" ->
            [thrown |-> TRUE, message |-> "fetch failed", backoffs |-> <<>>]
      [] reply.kind = "http" /\ reply.status = QuotaExceededStatus ->
            [thrown |-> FALSE, backoffs |-> <<QuotaBackoffMs>>,
             value |-> performFallbackClassification(jobTitle, jobDescription)]
      [] reply.kind = "http" /\ reply.status /= QuotaExceededStatus ->
            [thrown |-> TRUE, backoffs |-> <<>>,
             message |-> "Gemini API error: " \o numberText(reply.status) \o " - " \o reply.errorText]
      [] reply.kind = "badbody" ->
            [thrown |-> TRUE, message |-> "Unexpected end of JSON input", backoffs |-> <<>>]
      [] reply.kind = "nocandidates" ->
            [thrown |-> TRUE, message |-> "Invalid response from Gemini API", backoffs |-> <<>>]
      [] reply.kind = "text" /\ reply.text = "" ->
            [thrown |-> TRUE, message |-> "Invalid response from Gemini API", backoffs |-> <<>>]
      [] reply.kind = "text" /\ reply.text /= "" ->
            [thrown |-> FALSE, backoffs |-> <<>>,
             value |-> parseReply(jobTitle, jobDescription, trim(reply.text))]

\* lines 16-47: what of the posting goes into the prompt
buildPrompt(jobTitle, jobDescription, company) ==
    [title |-> jobTitle, company |-> company,
     description |-> substring(jobDescription, PromptDescriptionChars)]

\* classifyJob whose outer catch re-throws instead of degrading
classifyJobRethrow(key, jobTitle, jobDescription, company, reply) ==
    IF ~key
    THEN [raised |-> TRUE, error |-> "Missing Gemini API key",
          requests |-> <<>>, backoffs |-> <<>>]
    ELSE LET prompt == buildPrompt(jobTitle, jobDescription, company)
             body == classifyJobTry(jobTitle, jobDescription, reply)
         IN  IF body.thrown
             THEN [raised |-> TRUE, error |-> body.message,
                   requests |-> <<prompt>>, backoffs |-> body.backoffs]
             ELSE [raised |-> FALSE, value |-> body.value,
                   requests |-> <<prompt>>, backoffs |-> body.backoffs]

(* lines 9-170. The result says whether the call raised (and the message) or  *)
(* returned (and the verdict), the requests it sent to the endpoint and the   *)
(* quota backoffs it waited.                                                  *)
classifyJob(key, jobTitle, jobDescription, company, reply) ==
    IF ~key
    THEN [raised |-> TRUE, error |-> "Missing Gemini API key",
          requests |-> <<>>, backoffs |-> <<>>]
    ELSE LET prompt == buildPrompt(jobTitle, jobDescription, company)
             body == classifyJobTry(jobTitle, jobDescription, reply)
         IN  IF body.thrown
             THEN [raised |-> FALSE,
                   value |-> performFallbackClassification(jobTitle, jobDescription)
                                 @@ [error |-> body.message],
                   requests |-> <<prompt>>, backoffs |-> body.backoffs]
             ELSE [raised |-> FALSE, value |-> body.value,
                   requests |-> <<prompt>>, backoffs |-> body.backoffs]

----------------------------------------------------------------------------
(* utils/sheets.js: the spreadsheet *)

headers ==
    <<"Date", "Company", "Role", "Location", "Apply Link",
      "AI Classification", "AI Summary", "Status">>

ApplyLinkColumn == 5

\* new Date().toLocaleDateString('en-IN') on the day of the run
Today == "5/11/2026"

(* The store calls of one insertJobs call, in order; `fault` names the one    *)
(* that fails in this call, "none" when all succeed.                          *)
StoreFaults ==
    {"none", "initGet", "initUpdate", "initFormat", "read", "append", "format"}

\* initializeSheet without the test of line 57: the header is always written
initializeSheetAlways(sh, styled, fault) ==
    LET written == IF Len(sh) = 0 THEN <<headers>> ELSE <<headers>> \o Tail(sh)
    IN  IF fault = "initGet"
        THEN [sheet |-> sh, headerStyled |-> styled,
              calls |-> <<"client", "get A1:H1">>,
              result |-> [success |-> FALSE, error |-> "get failed"]]
        ELSE IF fault = "initUpdate"
        THEN [sheet |-> sh, headerStyled |-> styled,
              calls |-> <<"client", "get A1:H1", "update A1:H1">>,
              result |-> [success |-> FALSE, error |-> "update failed"]]
        ELSE IF fault = "initFormat"
        THEN [sheet |-> written, headerStyled |-> styled,
              calls |-> <<"client", "get A1:H1", "update A1:H1", "batchUpdate repeatCell">>,
              result |-> [success |-> FALSE, error |-> "batchUpdate failed"]]
        ELSE [sheet |-> written, headerStyled |-> TRUE,
              calls |-> <<"client", "get A1:H1", "update A1:H1", "batchUpdate repeatCell">>,
              result |-> [success |-> TRUE, message |-> "Sheet initialized successfully"]]

(* lines 30-103, called from insertJobs with a client that was created.       *)
(* Gives the rows and header styling it leaves, its result and the store      *)
(* calls it made.                                                             *)
initializeSheet(sh, styled, fault) ==
    IF fault = "initGet"
    THEN [sheet |-> sh, headerStyled |-> styled,
          calls |-> <<"client", "get A1:H1">>,
          result |-> [success |-> FALSE, error |-> "get failed"]]
    ELSE IF Len(sh) /= 0
    THEN [sheet |-> sh, headerStyled |-> styled,
          calls |-> <<"client", "get A1:H1">>,
          result |-> [success |-> TRUE, message |-> "Sheet initialized successfully"]]
    ELSE IF fault = "initUpdate"
    THEN [sheet |-> sh, headerStyled |-> styled,
          calls |-> <<"client", "get A1:H1", "update A1:H1">>,
          result |-> [success |-> FALSE, error |-> "update failed"]]
    ELSE IF fault = "initFormat"
    THEN [sheet |-> <<headers>>, headerStyled |-> styled,
          calls |-> <<"client", "get A1:H1", "update A1:H1", "batchUpdate repeatCell">>,
          result |-> [success |-> FALSE, error |-> "batchUpdate failed"]]
    ELSE [sheet |-> <<headers>>, headerStyled |-> TRUE,
          calls |-> <<"client", "get A1:H1", "update A1:H1", "batchUpdate repeatCell">>,
          result |-> [success |-> TRUE, message |-> "Sheet initialized successfully"]]

\* lines 118-127: the apply links read from column E
readExistingLinks(sh) ==
    LET column == [n \in 1..Len(sh) |-> sh[n][ApplyLinkColumn]]
    IN {link \in Elements(column) : link /= "" /\ link /= "Apply Link"}

\* existingLinks.has(job.applyLink)
hasLink(existingLinks, job) ==
    "applyLink" \in DOMAIN job /\ job.applyLink \in existingLinks

\* the row of one posting with missing cells left empty
toRowBlank(job) ==
    <<Today,
      OrDefault(job, "company", ""),
      OrDefault(job, "title", ""),
      OrDefault(job, "location", ""),
      OrDefault(job, "applyLink", ""),
      OrDefault(job, "aiClassification", ""),
      OrDefault(job, "aiSummary", ""),
      "New">>

\* lines 142-151: the row of one posting
toRow(job) ==
    <<Today,
      OrDefault(job, "company", "N/A"),
      OrDefault(job, "title", "N/A"),
      OrDefault(job, "location", "N/A"),
      OrDefault(job, "applyLink", "N/A"),
      OrDefault(job, "aiClassification", "UNPROCESSED"),
      OrDefault(job, "aiSummary", "Not processed"),
      "New">>

\* lines 187-256: the three rules, added at index 0, 1 and 2 in one batchUpdate
applyConditionalFormatting(rl, fault) ==
    IF fault = "format" THEN rl
    ELSE <<"GOOD_FIT", "MAYBE_FIT", "IGNORE">> \o rl

\* insertJobs with a formatting failure caught by the catch of line 177
insertJobsFormatFatal(jobList, sh, rl, styled, creds, fault) ==
    IF Len(jobList) = 0
    THEN [raised |-> FALSE, sheet |-> sh, rules |-> rl, headerStyled |-> styled,
          calls |-> <<>>,
          result |-> [success |-> TRUE, inserted |-> 0,
                      message |-> "No jobs to insert"]]
    ELSE IF ~creds
    THEN [raised |-> TRUE, sheet |-> sh, rules |-> rl, headerStyled |-> styled,
          calls |-> <<"client">>,
          error |-> "Missing Google Service Account JSON"]
    ELSE LET init == initializeSheet(sh, styled, fault)
             existingLinks == readExistingLinks(init.sheet)
             newJobs == SelectSeq(jobList, LAMBDA job : ~hasLink(existingLinks, job))
             rows == [n \in 1..Len(newJobs) |-> toRow(newJobs[n])]
         IN  IF fault = "read"
             THEN [raised |-> FALSE, sheet |-> init.sheet, rules |-> rl,
                   headerStyled |-> init.headerStyled,
                   calls |-> <<"client">> \o init.calls \o <<"get E:E">>,
                   result |-> [success |-> FALSE, error |-> "get failed",
                               inserted |-> 0]]
             ELSE IF Len(newJobs) = 0
             THEN [raised |-> FALSE, sheet |-> init.sheet, rules |-> rl,
                   headerStyled |-> init.headerStyled,
                   calls |-> <<"client">> \o init.calls \o <<"get E:E">>,
                   result |-> [success |-> TRUE, inserted |-> 0,
                               duplicates |-> Len(jobList),
                               message |-> "All jobs already exist in sheet"]]
             ELSE IF fault = "append"
             THEN [raised |-> FALSE, sheet |-> init.sheet, rules |-> rl,
                   headerStyled |-> init.headerStyled,
                   calls |-> <<"client">> \o init.calls \o <<"get E:E", "append A:H">>,
                   result |-> [success |-> FALSE, error |-> "append failed",
                               inserted |-> 0]]
             ELSE IF fault = "format"
             THEN [raised |-> FALSE, sheet |-> init.sheet \o rows, rules |-> rl,
                   headerStyled |-> init.headerStyled,
                   calls |-> <<"client">> \o init.calls
                                 \o <<"get E:E", "append A:H",
                                      "batchUpdate addConditionalFormatRule">>,
                   result |-> [success |-> FALSE, error |-> "batchUpdate failed",
                               inserted |-> 0]]
             ELSE [raised |-> FALSE, sheet |-> init.sheet \o rows,
                   rules |-> applyConditionalFormatting(rl, fault),
                   headerStyled |-> init.headerStyled,
                   calls |-> <<"client">> \o init.calls
                                 \o <<"get E:E", "append A:H",
                                      "batchUpdate addConditionalFormatRule">>,
                   result |-> [success |-> TRUE, inserted |-> Len(rows),
                               duplicates |-> Len(jobList) - Len(newJobs),
                               range |-> [first |-> Len(init.sheet) + 1,
                                          last |-> Len(init.sheet) + Len(rows)],
                               message |-> "Successfully inserted "
                                               \o numberText(Len(rows)) \o " jobs"]]

\* insertJobs going on to the append after a failed read of column E
insertJobsReadIgnored(jobList, sh, rl, styled, creds, fault) ==
    IF Len(jobList) = 0
    THEN [raised |-> FALSE, sheet |-> sh, rules |-> rl, headerStyled |-> styled,
          calls |-> <<>>,
          result |-> [success |-> TRUE, inserted |-> 0,
                      message |-> "No jobs to insert"]]
    ELSE IF ~creds
    THEN [raised |-> TRUE, sheet |-> sh, rules |-> rl, headerStyled |-> styled,
          calls |-> <<"client">>,
          error |-> "Missing Google Service Account JSON"]
    ELSE LET init == initializeSheet(sh, styled, fault)
             existingLinks == IF fault = "read" THEN {}
                              ELSE readExistingLinks(init.sheet)
             newJobs == SelectSeq(jobList, LAMBDA job : ~hasLink(existingLinks, job))
             rows == [n \in 1..Len(newJobs) |-> toRow(newJobs[n])]
         IN  IF fault = "read" /\ Len(newJobs) = 0
             THEN [raised |-> FALSE, sheet |-> init.sheet, rules |-> rl,
                   headerStyled |-> init.headerStyled,
                   calls |-> <<"client">> \o init.calls \o <<"get E:E">>,
                   result |-> [success |-> FALSE, error |-> "get failed",
                               inserted |-> 0]]
             ELSE IF Len(newJobs) = 0
             THEN [raised |-> FALSE, sheet |-> init.sheet, rules |-> rl,
                   headerStyled |-> init.headerStyled,
                   calls |-> <<"client">> \o init.calls \o <<"get E:E">>,
                   result |-> [success |-> TRUE, inserted |-> 0,
                               duplicates |-> Len(jobList),
                               message |-> "All jobs already exist in sheet"]]
             ELSE IF fault = "append"
             THEN [raised |-> FALSE, sheet |-> init.sheet, rules |-> rl,
                   headerStyled |-> init.headerStyled,
                   calls |-> <<"client">> \o init.calls \o <<"get E:E", "append A:H">>,
                   result |-> [success |-> FALSE, error |-> "append failed",
                               inserted |-> 0]]
             ELSE [raised |-> FALSE, sheet |-> init.sheet \o rows,
                   rules |-> applyConditionalFormatting(rl, fault),
                   headerStyled |-> init.headerStyled,
                   calls |-> <<"client">> \o init.calls
                                 \o <<"get E:E", "append A:H",
                                      "batchUpdate addConditionalFormatRule">>,
                   result |-> [success |-> TRUE, inserted |-> Len(rows),
                               duplicates |-> Len(jobList) - Len(newJobs),
                               range |-> [first |-> Len(init.sheet) + 1,
                                          last |-> Len(init.sheet) + Len(rows)],
                               message |-> "Successfully inserted "
                                               \o numberText(Len(rows)) \o " jobs"]]

(* lines 105-185. jobList is the argument, sh, rl, styled the spreadsheet,    *)
(* creds whether the service account is configured. Gives whether the call    *)
(* raised or returned (and what), the spreadsheet it leaves and the store     *)
(* calls it made, the client creation first.                                  *)
insertJobs(jobList, sh, rl, styled, creds, fault) ==
    IF Len(jobList) = 0
    THEN [raised |-> FALSE, sheet |-> sh, rules |-> rl, headerStyled |-> styled,
          calls |-> <<>>,
          result |-> [success |-> TRUE, inserted |-> 0,
                      message |-> "No jobs to insert"]]
    ELSE IF ~creds
    THEN [raised |-> TRUE, sheet |-> sh, rules |-> rl, headerStyled |-> styled,
          calls |-> <<"client">>,
          error |-> "Missing Google Service Account JSON"]
    ELSE LET init == initializeSheet(sh, styled, fault)
             existingLinks == readExistingLinks(init.sheet)
             newJobs == SelectSeq(jobList, LAMBDA job : ~hasLink(existingLinks, job))
             rows == [n \in 1..Len(newJobs) |-> toRow(newJobs[n])]
         IN  IF fault = "read"
             THEN [raised |-> FALSE, sheet |-> init.sheet, rules |-> rl,
                   headerStyled |-> init.headerStyled,
                   calls |-> <<"client">> \o init.calls \o <<"get E:E">>,
                   result |-> [success |-> FALSE, error |-> "get failed",
                               inserted |-> 0]]
             ELSE IF Len(newJobs) = 0
             THEN [raised |-> FALSE, sheet |-> init.sheet, rules |-> rl,
                   headerStyled |-> init.headerStyled,
                   calls |-> <<"client">> \o init.calls \o <<"get E:E">>,
                   result |-> [success |-> TRUE, inserted |-> 0,
                               duplicates |-> Len(jobList),
                               message |-> "All jobs already exist in sheet"]]
             ELSE IF fault = "append"
             THEN [raised |-> FALSE, sheet |-> init.sheet, rules |-> rl,
                   headerStyled |-> init.headerStyled,
                   calls |-> <<"client">> \o init.calls \o <<"get E:E", "append A:H">>,
                   result |-> [success |-> FALSE, error |-> "append failed",
                               inserted |-> 0]]
             ELSE [raised |-> FALSE, sheet |-> init.sheet \o rows,
                   rules |-> applyConditionalFormatting(rl, fault),
                   headerStyled |-> init.headerStyled,
                   calls |-> <<"client">> \o init.calls
                                 \o <<"get E:E", "append A:H",
                                      "batchUpdate addConditionalFormatRule">>,
                   result |-> [success |-> TRUE, inserted |-> Len(rows),
                               duplicates |-> Len(jobList) - Len(newJobs),
                               range |-> [first |-> Len(init.sheet) + 1,
                                          last |-> Len(init.sheet) + Len(rows)],
                               message |-> "Successfully inserted "
                                               \o numberText(Len(rows)) \o " jobs"]]

----------------------------------------------------------------------------
(* utils/gemini.js: the batch scheduler *)

RateLimitDelayMs == 7000

\* slice taking the element at index `to` as well
sliceInclusive(array, from, to) ==
    SubSeq(array, from + 1, IF to + 1 < Len(array) THEN to + 1 ELSE Len(array))

\* Array.prototype.slice(from, to) with 0-based from and exclusive to
slice(array, from, to) ==
    SubSeq(array, from + 1, IF to < Len(array) THEN to ELSE Len(array))

\* lines 278-284, for size >= 1: the loop from index `from` on
RECURSIVE chunkFrom(_, _, _)
chunkFrom(array, size, from) ==
    IF from < Len(array)
    THEN <<slice(array, from, from + size)>> \o chunkFrom(array, size, from + size)
    ELSE <<>>

chunkArray(array, size) == chunkFrom(array, size, 0)

\* lines 305-313: the classified posting of a verdict classifyJob returned
classifiedFrom(job, result) ==
    [aiClassification |-> result.classification,
     aiSummary |-> result.summary,
     matchedSkills |-> result.matchedSkills,
     concerns |-> result.concerns,
     experienceLevel |-> result.experienceLevel,
     processed |-> TRUE] @@ job

\* lines 314-328: the classified posting when classifyJob raised
classifiedAfterError(job, message) ==
    LET fallbackResult == performFallbackClassification(job.title, job.description)
    IN  [aiClassification |-> fallbackResult.classification,
         aiSummary |-> fallbackResult.summary \o " (fallback used)",
         matchedSkills |-> fallbackResult.matchedSkills,
         concerns |-> fallbackResult.concerns,
         experienceLevel |-> fallbackResult.experienceLevel,
         processed |-> TRUE,
         error |-> message] @@ job

\* the delay test without the position inside the batch
delayBeforeCallOfLaterBatch(bIndex, iIndex) == bIndex > 0

\* line 299: whether the rate-limit delay precedes the call at (b, i)
delayBeforeCall(bIndex, iIndex) == iIndex > 0 \/ bIndex > 0

(* lines 335-343: insertResult is a const of the try block of line 335; line  *)
(* 343, after that block, reads the name again, where no binding of it is in  *)
(* scope, so evaluating the template literal throws a ReferenceError.         *)
insertResultInScope == FALSE

----------------------------------------------------------------------------
(* Inputs of the classifier *)

Titles ==
    {"Node.js React Developer", "Senior PHP Engineer", "DevOps Engineer",
     "JavaScript Developer", "Sales Manager"}

Descriptions ==
    {"", "N/A", "Docker", "Express and MongoDB", "3+ years of PHP", "react"}

Companies == {"Acme"}

\* the texts the endpoint can carry in candidates[0].content.parts[0].text
ReplyBodies ==
    {e.text : e \in JsonTexts} \cup {"Sure! Here is the classification you asked for."}

ReplyTexts ==
    {""}
    \cup ReplyBodies
    \cup {FenceMarker \o "json\n" \o body \o "\n" \o FenceMarker : body \in ReplyBodies}
    \cup {" " \o FenceMarker \o "\n" \o body \o FenceMarker \o "\n" : body \in ReplyBodies}

HttpErrorStatuses == {QuotaExceededStatus, 500, 503}

Replies ==
    {[kind |-> "network"], [kind |-> "badbody"], [kind |-> "nocandidates"]}
    \cup {[kind |-> "http", status |-> st, errorText |-> "unavailable"] :
              st \in HttpErrorStatuses}
    \cup {[kind |-> "text", text |-> t] : t \in ReplyTexts}

NoInsertCalls == <<>>

\* no insertJobs call in flight next to the one being followed
NoWriters == <<>>

\* no initializeSheet call made on its own
NoSheetInits == <<>>

\* the spreadsheet and the pipeline, untouched
StoreIdle ==
    /\ credentials = TRUE
    /\ sheet = <<>>
    /\ rules = <<>>
    /\ headerStyled = FALSE
    /\ ijLog = NoInsertCalls
    /\ writers = NoWriters
    /\ sheetInits = NoSheetInits

PipelineIdle ==
    /\ pc = "idle"
    /\ jobs = <<>>
    /\ batchSize = 1
    /\ batches = <<>>
    /\ b = 0
    /\ i = 0
    /\ classifiedBatch = <<>>
    /\ allResults = <<>>
    /\ outcome = [kind |-> "running"]
    /\ events = <<>>

ClassifyIdle ==
    /\ cjArgs = [title |-> "", description |-> "", company |-> "",
                 reply |-> [kind |-> "network"]]
    /\ cjOut = [called |-> FALSE]

----------------------------------------------------------------------------
(* SpecClassify: one classifyJob call, for every posting, key and reply *)

InitClassify ==
    /\ apiKey \in BOOLEAN
    /\ cjArgs \in [title : Titles, description : Descriptions,
                   company : Companies, reply : Replies]
    /\ cjOut = [called |-> FALSE]
    /\ StoreIdle
    /\ PipelineIdle

ClassifyJobCall ==
    /\ ~cjOut.called
    /\ cjOut' = [called |-> TRUE,
                 result |-> classifyJob(apiKey, cjArgs.title, cjArgs.description,
                                        cjArgs.company, cjArgs.reply)]
    /\ UNCHANGED <<sheetInits, writers, apiKey, credentials, cjArgs, storeVars, pipelineVars>>

NextClassify == ClassifyJobCall

SpecClassify == InitClassify /\ [][NextClassify]_vars

----------------------------------------------------------------------------
(* Claims about the classifier *)

Labels == {"GOOD_FIT", "MAYBE_FIT", "IGNORE"}

Returned == cjOut.called /\ ~cjOut.result.raised

\* C1: whatever the endpoint does (a parsed reply with any label, a malformed
\* reply, a quota error, another HTTP error, a network exception), the verdict
\* classifyJob returns carries one of GOOD_FIT, MAYBE_FIT, IGNORE.
C1_VerdictLabelValid ==
    Returned => cjOut.result.value.classification \in Labels

\* a reply whose label is none of the three came back and was answered
C1_Witness ==
    /\ Returned
    /\ cjArgs.reply.kind = "text"
    /\ includes(cjArgs.reply.text, "PERFECT_FIT")
    /\ cjOut.result.value.classification = "MAYBE_FIT"

\* C7: with an API key configured classifyJob never raises: every failure of
\* the endpoint call (quota, other HTTP error, network exception, no
\* candidates, unparseable reply, missing fields) ends in a returned verdict.
C7_NeverRaisesWithKey ==
    (cjOut.called /\ apiKey) =>
        /\ ~cjOut.result.raised
        /\ {"classification", "summary"} \subseteq DOMAIN cjOut.result.value

\* the endpoint call failed with a network exception on an empty description
\* and a verdict came back, annotated with the error
C7_Witness ==
    /\ cjOut.called /\ apiKey
    /\ cjArgs.reply.kind = "network"
    /\ cjArgs.description = ""
    /\ ~cjOut.result.raised
    /\ "error" \in DOMAIN cjOut.result.value

\* the keyword hits of a posting, as sets
LoweredText == toLowerCase(cjArgs.title \o " " \o cjArgs.description)
GoodHits == {k \in Elements(goodFitKeywords) : includes(LoweredText, k)}
BadHits == {k \in Elements(badKeywords) : includes(LoweredText, k)}

DecisionRule ==
    IF Cardinality(GoodHits) >= 2 /\ BadHits = {} THEN "GOOD_FIT"
    ELSE IF Cardinality(GoodHits) >= 1 THEN "MAYBE_FIT"
    ELSE "IGNORE"

ServiceUnavailable == cjArgs.reply.kind \in {"network", "http"}

\* C8: when the service is unavailable the verdict follows the keyword rule on
\* the lower-cased title and description: GOOD_FIT with >= 2 good-fit hits and
\* no bad-fit hit, else MAYBE_FIT with >= 1 good-fit hit, else IGNORE; node.js
\* and react give GOOD_FIT, php and senior give IGNORE, docker alone MAYBE_FIT.
C8_FallbackRule ==
    (Returned /\ ServiceUnavailable) =>
        /\ cjOut.result.value.classification = DecisionRule
        /\ (cjArgs.title = "Node.js React Developer" /\ cjArgs.description \in {"", "N/A"}
               => cjOut.result.value.classification = "GOOD_FIT")
        /\ (cjArgs.title = "Senior PHP Engineer" /\ cjArgs.description \in {"", "3+ years of PHP"}
               => cjOut.result.value.classification = "IGNORE")
        /\ (cjArgs.title = "DevOps Engineer" /\ cjArgs.description = "Docker"
               => cjOut.result.value.classification = "MAYBE_FIT")

\* two good-fit hits next to a bad-fit hit, with the service down: MAYBE_FIT
C8_Witness ==
    /\ Returned /\ ServiceUnavailable
    /\ cjArgs.title = "Senior PHP Engineer"
    /\ cjArgs.description = "Express and MongoDB"
    /\ cjOut.result.value.classification = "MAYBE_FIT"
    /\ cjOut.result.value.fallback

QuotaReply ==
    cjArgs.reply.kind = "http" /\ cjArgs.reply.status = QuotaExceededStatus

\* C11: on a quota-exceeded (429) reply classifyJob sends no second request:
\* it waits the fixed backoff once and returns the fallback verdict for the
\* title and description, not raising and with no error annotation; every
\* classifyJob call sends at most one request.
C11_QuotaBackoffThenFallback ==
    cjOut.called =>
        /\ Len(cjOut.result.requests) <= 1
        /\ (apiKey /\ QuotaReply) =>
              /\ ~cjOut.result.raised
              /\ Len(cjOut.result.requests) = 1
              /\ cjOut.result.backoffs = <<QuotaBackoffMs>>
              /\ cjOut.result.value.fallback
              /\ cjOut.result.value.classification = DecisionRule
              /\ cjOut.result.value.matchedSkills
                     = SelectSeq(goodFitKeywords, LAMBDA k : k \in GoodHits)
              /\ "error" \notin DOMAIN cjOut.result.value
        /\ (apiKey /\ ~QuotaReply) => cjOut.result.backoffs = <<>>

\* a 429 reply for a posting with two good-fit hits was answered GOOD_FIT by
\* the fallback after one request and one backoff
C11_Witness ==
    /\ Returned /\ QuotaReply
    /\ cjArgs.title = "Node.js React Developer"
    /\ Len(cjOut.result.requests) = 1
    /\ Len(cjOut.result.backoffs) = 1
    /\ cjOut.result.value.classification = "GOOD_FIT"

\* the reply text parsed, when the endpoint sent a usable body
TextReply == cjArgs.reply.kind = "text" /\ cjArgs.reply.text /= ""
ParsedReply == JSONparse(stripFences(trim(cjArgs.reply.text)))

UnknownLabelReply ==
    /\ TextReply
    /\ ~replyUnusable(ParsedReply)
    /\ ParsedReply.value.fields.classification \notin Labels

\* C18: a reply that parses with non-empty classification and summary but
\* a label outside the three valid ones gives MAYBE_FIT with the reply's own
\* summary, matched skills and concerns, not the fallback classifier's verdict.
C18_UnknownLabelCoerced ==
    (Returned /\ UnknownLabelReply) =>
        /\ cjOut.result.value.classification = "MAYBE_FIT"
        /\ cjOut.result.value.summary = ParsedReply.value.fields.summary
        /\ cjOut.result.value.matchedSkills
               = ArrayOrDefault(ParsedReply.value.fields, "matchedSkills", <<>>)
        /\ cjOut.result.value.concerns
               = ArrayOrDefault(ParsedReply.value.fields, "concerns", <<>>)
        /\ "fallback" \notin DOMAIN cjOut.result.value
        /\ "error" \notin DOMAIN cjOut.result.value
        /\ includes(cjArgs.reply.text, "PERFECT_FIT") =>
              /\ cjOut.result.value.summary = "great"
              /\ cjOut.result.value.matchedSkills = <<"aws">>
              /\ cjOut.result.value.concerns = <<"remote">>

\* a fenced PERFECT_FIT reply for a posting the fallback would have ignored
\* came back MAYBE_FIT with the reply's summary
C18_Witness ==
    /\ Returned /\ UnknownLabelReply
    /\ includes(cjArgs.reply.text, FenceMarker)
    /\ includes(cjArgs.reply.text, "PERFECT_FIT")
    /\ cjArgs.title = "Sales Manager" /\ cjArgs.description = "N/A"
    /\ cjOut.result.value.classification = "MAYBE_FIT"
    /\ cjOut.result.value.summary = "great"

UnusableReply == TextReply /\ replyUnusable(ParsedReply)

\* C19: when the reply text does not parse as JSON, or parses but lacks
\* classification or summary, classifyJob returns exactly the verdict the
\* fallback classifier computes for the title and description, marked fallback.
C19_UnusableReplyIsFallback ==
    (Returned /\ UnusableReply) =>
        /\ cjOut.result.value
               = performFallbackClassification(cjArgs.title, cjArgs.description)
        /\ cjOut.result.value.fallback
        /\ cjOut.result.value.classification = DecisionRule
        /\ "error" \notin DOMAIN cjOut.result.value

\* a reply with a label but no summary, for a posting with one good-fit hit,
\* was answered by the fallback classifier
C19_Witness ==
    /\ Returned /\ UnusableReply
    /\ cjArgs.reply.text = "{\"classification\":\"MAYBE_FIT\"}"
    /\ cjArgs.title = "DevOps Engineer" /\ cjArgs.description = "Docker"
    /\ cjOut.result.value.fallback
    /\ cjOut.result.value.summary = "Partial match with some relevant skills: docker"

\* the call was answered by the fallback classifier
AnsweredByFallback == Returned /\ "fallback" \in DOMAIN cjOut.result.value

\* C26: fallback keyword hits are substring matches, so a posting whose title
\* or description contains 'javascript' has the bad-fit hit 'java' and is
\* never GOOD_FIT by the fallback classifier, whatever other good-fit keywords
\* it contains: it is MAYBE_FIT.
C26_JavascriptNeverGoodFit ==
    (AnsweredByFallback /\ includes(LoweredText, "javascript")) =>
        /\ "java" \in Elements(cjOut.result.value.concerns)
        /\ "javascript" \in Elements(cjOut.result.value.matchedSkills)
        /\ cjOut.result.value.classification = "MAYBE_FIT"

\* a JavaScript posting with Express and MongoDB, three good-fit hits and no
\* bad-fit keyword but the 'java' inside 'javascript', came back MAYBE_FIT
C26_Witness ==
    /\ AnsweredByFallback
    /\ cjArgs.title = "JavaScript Developer"
    /\ cjArgs.description = "Express and MongoDB"
    /\ cjOut.result.value.matchedSkills = <<"express", "mongodb", "javascript">>
    /\ cjOut.result.value.concerns = <<"java">>
    /\ cjOut.result.value.classification = "MAYBE_FIT"

----------------------------------------------------------------------------
(* SpecInsert: insertJobs calls, one after the other, on one spreadsheet *)

MaxInsertCalls == 2

\* a classified posting with the apply link `link`
ClassifiedPosting(link) ==
    [title |-> "Backend Developer", company |-> "Acme", location |-> "Pune",
     description |-> "react", applyLink |-> link,
     aiClassification |-> "MAYBE_FIT",
     aiSummary |-> "Partial match with some relevant skills: react",
     processed |-> TRUE]

J1 == ClassifiedPosting("https://jobs.example/1")
J2 == ClassifiedPosting("https://jobs.example/2")
J3 == ClassifiedPosting("https://jobs.example/3")

\* a posting without an apply link, company, location or verdict
BarePosting == [title |-> "Backend Developer"]

\* a posting without a title
UntitledPosting == [description |-> "react"]

InsertInputs ==
    {<<>>, <<J1>>, <<J3>>, <<J1, J3>>, <<J3, J3>>, <<J2, J1>>,
     <<BarePosting>>, <<J3, BarePosting, J1>>, <<UntitledPosting>>}

\* spreadsheets a single pipeline instance can have left behind
InitialSheets == {<<>>, <<headers>>, <<headers, toRow(J1), toRow(J2)>>}

InitStore ==
    /\ credentials \in BOOLEAN
    /\ sheet \in InitialSheets
    /\ rules = IF Len(sheet) > 1 THEN <<"GOOD_FIT", "MAYBE_FIT", "IGNORE">> ELSE <<>>
    /\ headerStyled = (Len(sheet) > 0)
    /\ ijLog = NoInsertCalls
    /\ writers = NoWriters
    /\ sheetInits = NoSheetInits

InitInsert ==
    /\ apiKey = TRUE
    /\ InitStore
    /\ ClassifyIdle
    /\ PipelineIdle

\* the record of one insertJobs call
LogEntry(jobList, fault, call) ==
    [jobs |-> jobList, fault |-> fault, before |-> sheet, after |-> call.sheet,
     raised |-> call.raised, calls |-> call.calls,
     result |-> IF call.raised THEN [error |-> call.error] ELSE call.result]

InsertJobsCall ==
    /\ Len(ijLog) < MaxInsertCalls
    /\ \E jobList \in InsertInputs, fault \in StoreFaults :
        LET call == insertJobs(jobList, sheet, rules, headerStyled, credentials, fault)
        IN  /\ sheet' = call.sheet
            /\ rules' = call.rules
            /\ headerStyled' = call.headerStyled
            /\ ijLog' = Append(ijLog, LogEntry(jobList, fault, call))
    /\ UNCHANGED <<sheetInits, writers, apiKey, credentials, classifyVars, pipelineVars>>

NextInsert == InsertJobsCall

SpecInsert == InitInsert /\ [][NextInsert]_vars

----------------------------------------------------------------------------
(* Claims about the store writer *)

DataRows(sh) == SelectSeq(sh, LAMBDA row : row /= headers)

StoredLinks(sh) == {DataRows(sh)[n][ApplyLinkColumn] : n \in 1..Len(DataRows(sh))}

\* C2: in any sequence of insertJobs calls of a single pipeline instance, from
\* a store with pairwise distinct apply links, no two persisted data rows have
\* the same apply link, for any input lists (a link twice, a missing link).
C2_ApplyLinksUnique ==
    \A m, n \in 1..Len(DataRows(sheet)) :
        m /= n => DataRows(sheet)[m][ApplyLinkColumn] /= DataRows(sheet)[n][ApplyLinkColumn]

\* the value of a numeric field of a result, -1 when the result lacks it
NumberField(result, f) == IF f \in DOMAIN result THEN result[f] ELSE -1

Succeeded(entry) == ~entry.raised /\ entry.result.success

HaveDistinctLinks(jobList) ==
    /\ \A n \in 1..Len(jobList) : ~Falsy(jobList[n], "applyLink")
    /\ \A m, n \in 1..Len(jobList) : m /= n => jobList[m].applyLink /= jobList[n].applyLink

\* C5: a list of N >= 0 postings with pairwise distinct apply links absent
\* from the store, inserted twice in a row without store failure, gives
\* inserted=N, duplicates=0 and then inserted=0, duplicates=N, and the second
\* call leaves the rows unchanged.
C5_InsertTwice ==
    \A k \in 1..(Len(ijLog) - 1) :
        LET first == ijLog[k]
            second == ijLog[k + 1]
            N == Len(first.jobs)
        IN  ( /\ first.jobs = second.jobs
              /\ HaveDistinctLinks(first.jobs)
              /\ \A n \in 1..N : first.jobs[n].applyLink \notin StoredLinks(first.before)
              /\ first.fault = "none" /\ second.fault = "none"
              /\ ~first.raised /\ ~second.raised )
            => /\ first.result.success /\ second.result.success
               /\ NumberField(first.result, "inserted") = N
               /\ NumberField(first.result, "duplicates") = 0
               /\ NumberField(second.result, "inserted") = 0
               /\ NumberField(second.result, "duplicates") = N
               /\ second.after = second.before

\* the postings of jobList whose apply link is (not) among the stored links
AmongStored(jobList, sh) ==
    SelectSeq(jobList, LAMBDA job : ~Falsy(job, "applyLink") /\ job.applyLink \in StoredLinks(sh))
NotAmongStored(jobList, sh) ==
    SelectSeq(jobList, LAMBDA job : Falsy(job, "applyLink") \/ job.applyLink \notin StoredLinks(sh))

\* C6: a successful insertJobs call appends exactly the input postings whose
\* apply link is not among the stored apply links read at the start of the
\* call, reports as duplicates the number of the others, and inserted +
\* duplicates is the length of the input.
C6_DedupPartition ==
    \A k \in 1..Len(ijLog) :
        LET entry == ijLog[k]
            fresh == NotAmongStored(entry.jobs, entry.before)
        IN  Succeeded(entry) =>
               /\ DataRows(entry.after)
                      = DataRows(entry.before) \o [n \in 1..Len(fresh) |-> toRow(fresh[n])]
               /\ NumberField(entry.result, "inserted") = Len(fresh)
               /\ NumberField(entry.result, "duplicates")
                      = Len(AmongStored(entry.jobs, entry.before))
               /\ NumberField(entry.result, "inserted")
                      + NumberField(entry.result, "duplicates") = Len(entry.jobs)

\* C9: insertJobs with an empty list returns success with inserted=0 and
\* duplicates=0 and makes no store call (no client, no header check, no read,
\* no append, no formatting).
C9_EmptyInput ==
    \A k \in 1..Len(ijLog) :
        ijLog[k].jobs = <<>> =>
            /\ Succeeded(ijLog[k])
            /\ NumberField(ijLog[k].result, "inserted") = 0
            /\ NumberField(ijLog[k].result, "duplicates") = 0
            /\ ijLog[k].calls = <<>>
            /\ ijLog[k].after = ijLog[k].before

\* the value written for field f of a posting: its own, or the sentinel
CellOf(job, f, sentinel) ==
    IF f \in DOMAIN job /\ job[f] /= "" THEN job[f] ELSE sentinel

AppendCalls(entry) == SelectSeq(entry.calls, LAMBDA call : call = "append A:H")

\* C20: a successful insertJobs call issues exactly one append, whose rows are
\* the new postings in input order, each of 8 cells ending in 'New', with a
\* missing company, role, location or apply link written as 'N/A', a missing
\* label as 'UNPROCESSED' and a missing summary as 'Not processed'; when no
\* posting is new, no append is issued.
C20_SingleAppendOfNewRows ==
    \A k \in 1..Len(ijLog) :
        LET entry == ijLog[k]
            fresh == NotAmongStored(entry.jobs, entry.before)
            kept == Len(entry.after) - Len(fresh)
        IN  Succeeded(entry) =>
               /\ Len(fresh) = 0 =>
                     /\ AppendCalls(entry) = <<>>
                     /\ DataRows(entry.after) = DataRows(entry.before)
               /\ Len(fresh) > 0 =>
                     /\ Len(AppendCalls(entry)) = 1
                     /\ kept >= Len(entry.before)
                     /\ \A n \in 1..Len(fresh) :
                           LET row == entry.after[kept + n]
                               job == fresh[n]
                           IN  /\ Len(row) = 8
                               /\ row[2] = CellOf(job, "company", "N/A")
                               /\ row[3] = CellOf(job, "title", "N/A")
                               /\ row[4] = CellOf(job, "location", "N/A")
                               /\ row[5] = CellOf(job, "applyLink", "N/A")
                               /\ row[6] = CellOf(job, "aiClassification", "UNPROCESSED")
                               /\ row[7] = CellOf(job, "aiSummary", "Not processed")
                               /\ row[8] = "New"

\* one call with a stored posting, a bare posting and a new posting appended
\* the bare and the new one, in that order, with the sentinels, in one append
C20_Witness ==
    \E k \in 1..Len(ijLog) :
        /\ Succeeded(ijLog[k])
        /\ ijLog[k].jobs = <<J3, BarePosting, J1>>
        /\ Len(ijLog[k].before) = 3
        /\ Len(AppendCalls(ijLog[k])) = 1
        /\ Len(ijLog[k].after) = 5
        /\ ijLog[k].after[4] = toRow(J3)
        /\ ijLog[k].after[5] = <<Today, "N/A", "Backend Developer", "N/A", "N/A",
                                 "UNPROCESSED", "Not processed", "New">>

\* C23: visual tagging is an idempotent side effect of insertJobs: after any
\* number of successful inserts the store has the same conditional tagging
\* rules, one per label, as after one; repeated inserts add no further rule.
C23_TaggingRulesIdempotent ==
    \A label \in Labels :
        Len(SelectSeq(rules, LAMBDA rule : rule = label)) <= 1

FormatCalls(entry) ==
    SelectSeq(entry.calls, LAMBDA call : call = "batchUpdate addConditionalFormatRule")

\* C24: a failure while applying the conditional tagging rules does not fail
\* the insert: insertJobs returns success with inserted equal to the number
\* of rows appended, and the appended rows stay in the store.
C24_FormatFailureTolerated ==
    \A k \in 1..Len(ijLog) :
        LET entry == ijLog[k]
            fresh == NotAmongStored(entry.jobs, entry.before)
        IN  (entry.fault = "format" /\ FormatCalls(entry) /= <<>>) =>
               /\ ~entry.raised
               /\ entry.result.success
               /\ Len(fresh) > 0
               /\ NumberField(entry.result, "inserted") = Len(fresh)
               /\ Len(DataRows(entry.after)) = Len(DataRows(entry.before)) + Len(fresh)
               /\ \A n \in 1..Len(fresh) :
                     entry.after[Len(entry.after) - Len(fresh) + n][ApplyLinkColumn]
                         = CellOf(fresh[n], "applyLink", "N/A")
               /\ (k = Len(ijLog)) => sheet = entry.after

\* two new postings were appended, formatting failed, the call reported
\* success with inserted = 2 and the sheet has the two rows
C24_Witness ==
    /\ Len(ijLog) = 1
    /\ ijLog[1].fault = "format"
    /\ ijLog[1].jobs = <<J1, J3>>
    /\ ijLog[1].before = <<>>
    /\ ~ijLog[1].raised
    /\ ijLog[1].result.success
    /\ ijLog[1].result.inserted = 2
    /\ sheet = <<headers, toRow(J1), toRow(J3)>>
    /\ rules = <<>>

\* C25: when the client can be created but the read of the stored apply
\* links or the append fails, insertJobs does not raise: it returns
\* success=false with inserted=0 and the error message, and after a failed
\* read no append is attempted and no data row is added.
C25_ReadOrAppendFailureReported ==
    \A k \in 1..Len(ijLog) :
        LET entry == ijLog[k]
            readFailed == entry.fault = "read" /\ "get E:E" \in Elements(entry.calls)
            appendFailed == entry.fault = "append" /\ AppendCalls(entry) /= <<>>
        IN  /\ (readFailed \/ appendFailed) =>
                  /\ ~entry.raised
                  /\ ~entry.result.success
                  /\ NumberField(entry.result, "inserted") = 0
                  /\ "error" \in DOMAIN entry.result
                  /\ entry.result.error /= ""
            /\ readFailed =>
                  /\ AppendCalls(entry) = <<>>
                  /\ DataRows(entry.after) = DataRows(entry.before)
            /\ (entry.fault = "read" /\ entry.jobs /= <<>> /\ ~entry.raised) => readFailed

\* the read failed for a list with a new posting: the call returned
\* success=false, inserted=0, an error, and the sheet got the header only
C25_Witness ==
    /\ Len(ijLog) = 1
    /\ ijLog[1].fault = "read"
    /\ ijLog[1].jobs = <<J3>>
    /\ ijLog[1].before = <<>>
    /\ ~ijLog[1].raised
    /\ ijLog[1].result = [success |-> FALSE, error |-> "get failed", inserted |-> 0]
    /\ sheet = <<headers>>

----------------------------------------------------------------------------
(* SpecPipeline: one classifyAndInsertInBatches run *)

MaxJobs == 3
MaxBatchSize == 2

RawPosting(title, description, link) ==
    [title |-> title, company |-> "Acme", location |-> "Remote",
     description |-> description, applyLink |-> link]

PipelinePostings ==
    {RawPosting("Node.js React Developer", "Express and MongoDB", "https://jobs.example/1"),
     RawPosting("Senior PHP Engineer", "3+ years of PHP", "https://jobs.example/3")}

ListsUpTo(S, n) == UNION {[1..len -> S] : len \in 0..n}

PipelineReplies ==
    {[kind |-> "network"],
     [kind |-> "http", status |-> QuotaExceededStatus, errorText |-> "quota"],
     [kind |-> "http", status |-> 500, errorText |-> "internal"],
     [kind |-> "text", text |-> "Sure! Here is the classification you asked for."],
     [kind |-> "text",
      text |-> FenceMarker \o "json\n"
                   \o "{\"classification\":\"IGNORE\",\"summary\":\"senior role\"}"
                   \o "\n" \o FenceMarker]}

InitPipeline ==
    /\ apiKey \in BOOLEAN
    /\ InitStore
    /\ ClassifyIdle
    /\ pc = "start"
    /\ jobs \in ListsUpTo(PipelinePostings, MaxJobs)
    /\ batchSize \in 1..MaxBatchSize
    /\ batches = <<>>
    /\ b = 0
    /\ i = 0
    /\ classifiedBatch = <<>>
    /\ allResults = <<>>
    /\ outcome = [kind |-> "running"]
    /\ events = <<>>

(* one entry of the run's record: what happened, where, and the wait if any.   *)
(* "classifyError" is the console.error of classifyJob's outer catch (line    *)
(* 158), "raised" the console.error of the scheduler's catch (line 315).      *)
Event(ev, ms) == [ev |-> ev, b |-> b, i |-> i, ms |-> ms]

\* line 287 and the loop test of line 290
StartRun ==
    /\ pc = "start"
    /\ batches' = chunkArray(jobs, batchSize)
    /\ pc' = IF Len(batches') > 0 THEN "classify" ELSE "return"
    /\ UNCHANGED <<sheetInits, writers, apiKey, credentials, classifyVars, storeVars, jobs, batchSize,
                   b, i, classifiedBatch, allResults, outcome, events>>

\* lines 295-331: one turn of the inner loop
ClassifyPosting ==
    /\ pc = "classify"
    /\ \E reply \in PipelineReplies :
        LET job == batches[b + 1][i + 1]
            call == classifyJob(apiKey, job.title, job.description, job.company, reply)
            classified == IF call.raised
                          THEN classifiedAfterError(job, call.error)
                          ELSE classifiedFrom(job, call.value)
        IN  /\ classifiedBatch' = Append(classifiedBatch, classified)
            /\ events' = events
                  \o (IF delayBeforeCall(b, i)
                      THEN <<Event("delay", RateLimitDelayMs)>> ELSE <<>>)
                  \o <<Event("classify", 0)>>
                  \o [n \in 1..Len(call.requests) |-> Event("request", 0)]
                  \o [n \in 1..Len(call.backoffs) |-> Event("backoff", call.backoffs[n])]
                  \o (IF call.raised THEN <<Event("raised", 0)>>
                      ELSE IF "error" \in DOMAIN call.value
                           THEN <<Event("classifyError", 0)>> ELSE <<>>)
    /\ i' = i + 1
    /\ pc' = IF i + 1 < Len(batches[b + 1]) THEN "classify" ELSE "insert"
    /\ UNCHANGED <<sheetInits, writers, apiKey, credentials, classifyVars, storeVars, jobs, batchSize,
                   batches, b, allResults, outcome>>

\* lines 333-346: hand the batch to insertJobs, log, collect, next batch
InsertBatch ==
    /\ pc = "insert"
    /\ \E fault \in StoreFaults :
        LET call == insertJobs(classifiedBatch, sheet, rules, headerStyled,
                               credentials, fault)
        IN  /\ sheet' = call.sheet
            /\ rules' = call.rules
            /\ headerStyled' = call.headerStyled
            /\ ijLog' = Append(ijLog, LogEntry(classifiedBatch, fault, call))
    /\ events' = Append(events, Event("insert", 0))
    /\ IF insertResultInScope
       THEN /\ allResults' = allResults \o classifiedBatch
            /\ classifiedBatch' = <<>>
            /\ b' = b + 1
            /\ i' = 0
            /\ pc' = IF b + 1 < Len(batches) THEN "classify" ELSE "return"
            /\ UNCHANGED outcome
       ELSE /\ outcome' = [kind |-> "raised", error |-> "insertResult is not defined"]
            /\ pc' = "done"
            /\ UNCHANGED <<allResults, classifiedBatch, b, i>>
    /\ UNCHANGED <<sheetInits, writers, apiKey, credentials, classifyVars, jobs, batchSize, batches>>

\* line 348
ReturnResults ==
    /\ pc = "return"
    /\ outcome' = [kind |-> "returned", value |-> allResults]
    /\ pc' = "done"
    /\ UNCHANGED <<sheetInits, writers, apiKey, credentials, classifyVars, storeVars, jobs, batchSize,
                   batches, b, i, classifiedBatch, allResults, events>>

NextPipeline == StartRun \/ ClassifyPosting \/ InsertBatch \/ ReturnResults

SpecPipeline == InitPipeline /\ [][NextPipeline]_vars

----------------------------------------------------------------------------
(* Claims about the batch scheduler *)

\* C3: for M postings and a batch size B >= 1 classifyAndInsertInBatches
\* returns exactly M classified postings, one per input posting in input
\* order, however many classification calls fail.
C3_BatchCompleteness ==
    pc = "done" =>
        /\ outcome.kind = "returned"
        /\ Len(outcome.value) = Len(jobs)
        /\ \A n \in 1..Len(jobs) :
              /\ outcome.value[n].applyLink = jobs[n].applyLink
              /\ outcome.value[n].title = jobs[n].title
              /\ outcome.value[n].aiClassification \in Labels

InsertFailed(entry) == entry.raised \/ ~entry.result.success

\* C4: when insertJobs fails for a batch, by throwing or by reporting failure,
\* the run still classifies and hands over every later batch, and the
\* classified postings of all batches are in the returned result.
C4_InsertFailureTolerated ==
    (pc = "done" /\ \E k \in 1..Len(ijLog) : InsertFailed(ijLog[k])) =>
        /\ outcome.kind = "returned"
        /\ Len(ijLog) = Len(batches)
        /\ [n \in 1..Len(outcome.value) |-> outcome.value[n].applyLink]
               = [n \in 1..Len(jobs) |-> jobs[n].applyLink]

\* C10: without an API key classifyJob raises before any endpoint request, the
\* run builds no fallback verdict from that error and persists none, and the
\* configuration error reaches the caller of the run.
C10_MissingKeyTerminal ==
    ~apiKey =>
        /\ \A n \in 1..Len(events) : events[n].ev /= "request"
        /\ classifiedBatch = <<>>
        /\ \A k \in 1..Len(ijLog) : ijLog[k].after = ijLog[k].before
        /\ (pc = "done" /\ jobs /= <<>>) =>
               outcome = [kind |-> "raised", error |-> "Missing Gemini API key"]

\* the positions in the run's record of the events named ev
EventsNamed(ev) == {n \in 1..Len(events) : events[n].ev = ev}

\* the postings handed to insertJobs are the postings of the batch, classified
ClassifiedOf(batch, handed) ==
    /\ Len(handed) = Len(batch)
    /\ \A n \in 1..Len(batch) :
          /\ handed[n].applyLink = batch[n].applyLink
          /\ handed[n].title = batch[n].title
          /\ handed[n].aiClassification \in Labels

\* C12: batches are handled in input order, one at a time: insertJobs is
\* called exactly once per batch, after every posting of that batch was
\* classified and before any posting of the next batch is, with exactly that
\* batch's classified postings.
C12_OneInsertPerBatch ==
    /\ Len(ijLog) <= Len(batches)
    /\ \A k \in 1..Len(ijLog) : ClassifiedOf(batches[k], ijLog[k].jobs)
    /\ \A n \in EventsNamed("insert") :
          /\ Cardinality({m \in EventsNamed("classify") :
                             m < n /\ events[m].b = events[n].b})
                 = Len(batches[events[n].b + 1])
          /\ \A m \in EventsNamed("classify") :
                 (m < n) = (events[m].b <= events[n].b)
    /\ pc = "done" => Len(ijLog) = Len(batches)

Emitted == {classifiedBatch[n] : n \in 1..Len(classifiedBatch)}

\* C16: a posting whose classification raised inside the batch scheduler is
\* emitted with processed=false and the error message, while a posting
\* degraded to the fallback by an unparseable reply is emitted with
\* processed=true and no error.
C16_RaisedTaggedUnprocessed ==
    \A n \in EventsNamed("classify") :
        (events[n].b = b /\ events[n].i < Len(classifiedBatch)) =>
            LET posting == classifiedBatch[events[n].i + 1]
                raised == n < Len(events) /\ events[n + 1].ev = "raised"
            IN  IF raised
                THEN ~posting.processed /\ "error" \in DOMAIN posting
                ELSE posting.processed

\* C17: after a network or non-quota service error the posting has the
\* fallback verdict, nothing is raised, and the classified posting the batch
\* scheduler emits carries the original error message.
C17_ErrorOnEmittedPosting ==
    \A n \in EventsNamed("classifyError") :
        (events[n].b = b /\ events[n].i < Len(classifiedBatch)) =>
            LET posting == classifiedBatch[events[n].i + 1]
            IN  /\ posting.aiClassification \in Labels
                /\ "error" \in DOMAIN posting

----------------------------------------------------------------------------
(* SpecRerun: a run that ended, or was cut off between two batches, followed  *)
(* by new runs of the handler on the same postings and the same spreadsheet   *)

MaxReruns == 1

\* the number of runs that came before the current one
RunsBefore ==
    IF events /= <<>> /\ events[1].ev = "rerun" THEN events[1].ms ELSE 0

(* a new call of classifyAndInsertInBatches with the same postings: what the  *)
(* earlier run held in memory is gone, what it appended is still in the       *)
(* sheet. The record starts again, with the number of runs before this one.   *)
Rerun ==
    /\ pc = "done" \/ (pc = "classify" /\ i = 0)
    /\ RunsBefore < MaxReruns
    /\ events' = <<[ev |-> "rerun", b |-> 0, i |-> 0, ms |-> RunsBefore + 1]>>
    /\ ijLog' = NoInsertCalls
    /\ pc' = "start"
    /\ batches' = <<>>
    /\ b' = 0
    /\ i' = 0
    /\ classifiedBatch' = <<>>
    /\ allResults' = <<>>
    /\ outcome' = [kind |-> "running"]
    /\ UNCHANGED <<sheetInits, writers, apiKey, credentials, classifyVars, sheet, rules, headerStyled,
                   jobs, batchSize>>

NextRerun == StartRun \/ ClassifyPosting \/ InsertBatch \/ ReturnResults \/ Rerun

SpecRerun == InitPipeline /\ [][NextRerun]_vars

\* the number of data rows of the sheet that carry the apply link
RowsWithLink(link) ==
    Len(SelectSeq(DataRows(sheet), LAMBDA row : row[ApplyLinkColumn] = link))

NoStoreTrouble ==
    credentials /\ \A k \in 1..Len(ijLog) : ijLog[k].fault = "none"

\* C15: when a run is cut off after some batches were completed and run again
\* on the same postings, the postings of a completed batch are counted as
\* duplicates and not appended again, so that after a second run without store
\* failure every apply link of the input is persisted exactly once.
C15_RerunPersistsEachLinkOnce ==
    ( /\ RunsBefore > 0
      /\ HaveDistinctLinks(jobs)
      /\ NoStoreTrouble ) =>
        /\ \A n \in 1..Len(jobs) : RowsWithLink(jobs[n].applyLink) <= 1
        /\ pc = "done" => \A n \in 1..Len(jobs) : RowsWithLink(jobs[n].applyLink) = 1

----------------------------------------------------------------------------
(* SpecConcurrent: two insertJobs calls on one spreadsheet at the same time,  *)
(* as two invocations of the handler make them. Each await of insertJobs is   *)
(* a step of its own; the service answers every request (no store failure).   *)

Writers == {"first", "second"}

ConcurrentInputs == {<<>>, <<J3>>, <<J1, J3>>, <<J2, J1>>}

InitConcurrent ==
    /\ apiKey = TRUE
    /\ credentials \in BOOLEAN
    /\ sheet \in InitialSheets
    /\ rules = IF Len(sheet) > 1 THEN <<"GOOD_FIT", "MAYBE_FIT", "IGNORE">> ELSE <<>>
    /\ headerStyled = (Len(sheet) > 0)
    /\ ijLog = NoInsertCalls
    /\ ClassifyIdle
    /\ PipelineIdle
    /\ writers \in [Writers -> [pc : {"start"}, jobs : ConcurrentInputs,
                                existingLinks : {{}}, newJobs : {<<>>}]]
    /\ sheetInits = NoSheetInits

\* values.append with no uniqueness of the apply link: rows are only added
appendValuesUnique(sh, rows) ==
    sh \o SelectSeq(rows, LAMBDA row : row[ApplyLinkColumn] \notin readExistingLinks(sh))

\* lines 154-162: values.append adds the rows after the last row of the sheet
appendValues(sh, rows) == sh \o rows

\* lines 106-116 and 32-43: the empty-list return, the client, the header read
CheckHeader(w) ==
    /\ writers[w].pc = "start"
    /\ writers' = [writers EXCEPT ![w].pc =
                      IF Len(writers[w].jobs) = 0 THEN "returned"
                      ELSE IF ~credentials THEN "raised"
                      ELSE IF Len(sheet) = 0 THEN "header"
                      ELSE "read"]
    /\ UNCHANGED <<sheetInits, apiKey, credentials, classifyVars, storeVars, pipelineVars>>

\* lines 43-96: the header row written to A1:H1 and styled
WriteHeader(w) ==
    /\ writers[w].pc = "header"
    /\ sheet' = IF Len(sheet) = 0 THEN <<headers>> ELSE [sheet EXCEPT ![1] = headers]
    /\ headerStyled' = TRUE
    /\ writers' = [writers EXCEPT ![w].pc = "read"]
    /\ UNCHANGED <<sheetInits, apiKey, credentials, classifyVars, rules, ijLog, pipelineVars>>

\* lines 118-139: column E read, the postings filtered against it
ReadLinks(w) ==
    /\ writers[w].pc = "read"
    /\ LET existingLinks == readExistingLinks(sheet)
           newJobs == SelectSeq(writers[w].jobs, LAMBDA job : ~hasLink(existingLinks, job))
       IN  writers' = [writers EXCEPT ![w] =
                          [pc |-> IF Len(newJobs) = 0 THEN "returned" ELSE "append",
                           jobs |-> writers[w].jobs,
                           existingLinks |-> existingLinks,
                           newJobs |-> newJobs]]
    /\ UNCHANGED <<sheetInits, apiKey, credentials, classifyVars, storeVars, pipelineVars>>

\* lines 141-162: the rows of the new postings appended in one request
AppendRows(w) ==
    /\ writers[w].pc = "append"
    /\ sheet' = appendValues(sheet, [n \in 1..Len(writers[w].newJobs) |->
                                        toRow(writers[w].newJobs[n])])
    /\ writers' = [writers EXCEPT ![w].pc = "format"]
    /\ UNCHANGED <<sheetInits, apiKey, credentials, classifyVars, rules, headerStyled, ijLog,
                   pipelineVars>>

\* lines 165-176: the formatting rules added, the result returned
FormatAndReturn(w) ==
    /\ writers[w].pc = "format"
    /\ rules' = applyConditionalFormatting(rules, "none")
    /\ writers' = [writers EXCEPT ![w].pc = "returned"]
    /\ UNCHANGED <<sheetInits, apiKey, credentials, classifyVars, sheet, headerStyled, ijLog,
                   pipelineVars>>

NextConcurrent ==
    \E w \in Writers :
        \/ CheckHeader(w)
        \/ WriteHeader(w)
        \/ ReadLinks(w)
        \/ AppendRows(w)
        \/ FormatAndReturn(w)

SpecConcurrent == InitConcurrent /\ [][NextConcurrent]_vars

\* the apply links of the postings a writer found new at its read
NewLinks(w) ==
    {writers[w].newJobs[n].applyLink : n \in 1..Len(writers[w].newJobs)}

HasAppended(w) == writers[w].pc \in {"format", "returned"} /\ writers[w].newJobs /= <<>>

\* C14: two insertJobs calls running at the same time are not kept apart:
\* when both carry the same new apply link and both read the stored links
\* before either appends, both append it and the store holds the link in two
\* rows; such an interleaving exists.
C14_ConcurrentInsertsDuplicate ==
    \A link \in NewLinks("first") \cap NewLinks("second") :
        /\ link \notin writers["first"].existingLinks
        /\ link \notin writers["second"].existingLinks
        /\ (HasAppended("first") /\ HasAppended("second")) => RowsWithLink(link) >= 2

\* both calls, each with distinct links, found /3 new on a sheet that had no
\* row for it, both returned, and the sheet has two rows for /3
C14_Witness ==
    /\ \A w \in Writers : writers[w].pc = "returned" /\ HaveDistinctLinks(writers[w].jobs)
    /\ \A w \in Writers : "https://jobs.example/3" \in NewLinks(w)
    /\ \A w \in Writers : "https://jobs.example/3" \notin writers[w].existingLinks
    /\ RowsWithLink("https://jobs.example/3") = 2

----------------------------------------------------------------------------
(* Claims about the partition into batches *)

\* the batches put end to end
RECURSIVE Flatten(_)
Flatten(lists) ==
    IF lists = <<>> THEN <<>> ELSE Head(lists) \o Flatten(Tail(lists))

\* C21: for every list and batch size B >= 1 chunkArray gives consecutive
\* batches whose concatenation is the input in order, every batch but the
\* last of exactly B postings, the last of 1 to B, and no batch for an empty
\* list.
C21_ChunksPartitionInput ==
    (pc /= "start" /\ batchSize >= 1) =>
        /\ Flatten(batches) = jobs
        /\ \A k \in 1..(Len(batches) - 1) : Len(batches[k]) = batchSize
        /\ Len(batches) > 0 =>
              /\ Len(batches[Len(batches)]) >= 1
              /\ Len(batches[Len(batches)]) <= batchSize
        /\ jobs = <<>> => batches = <<>>

\* three postings in batches of two: a full batch and a last batch of one
C21_Witness ==
    /\ pc /= "start"
    /\ Len(jobs) = 3 /\ batchSize = 2
    /\ Len(batches) = 2
    /\ batches[1] = <<jobs[1], jobs[2]>>
    /\ batches[2] = <<jobs[3]>>

----------------------------------------------------------------------------
(* SpecInitSheet: initializeSheet calls, one after the other, on one sheet *)

MaxInitCalls == 3

\* the requests of initializeSheet that can fail
InitFaults == {"none", "initGet", "initUpdate", "initFormat"}

\* the sheets of InitialSheets, and one with a data row and no header row, as
\* an insertJobs call whose header check failed leaves it
InitSheetSheets == InitialSheets \cup {<<toRow(J3)>>}

InitInitSheet ==
    /\ apiKey = TRUE
    /\ credentials \in BOOLEAN
    /\ sheet \in InitSheetSheets
    /\ rules = <<>>
    /\ headerStyled = (Len(sheet) > 0 /\ sheet[1] = headers)
    /\ ijLog = NoInsertCalls
    /\ writers = NoWriters
    /\ sheetInits = NoSheetInits
    /\ ClassifyIdle
    /\ PipelineIdle

\* lines 30-103; line 31 creates the client before the try, so it can raise
InitializeSheetCall ==
    /\ Len(sheetInits) < MaxInitCalls
    /\ \E fault \in InitFaults :
        LET call == initializeSheet(sheet, headerStyled, fault)
        IN  IF ~credentials
            THEN /\ sheetInits' = Append(sheetInits,
                        [fault |-> fault, before |-> sheet, after |-> sheet,
                         styledBefore |-> headerStyled, styledAfter |-> headerStyled,
                         raised |-> TRUE, calls |-> <<"client">>,
                         result |-> [error |-> "Missing Google Service Account JSON"]])
                 /\ UNCHANGED <<sheet, headerStyled>>
            ELSE /\ sheet' = call.sheet
                 /\ headerStyled' = call.headerStyled
                 /\ sheetInits' = Append(sheetInits,
                        [fault |-> fault, before |-> sheet, after |-> call.sheet,
                         styledBefore |-> headerStyled,
                         styledAfter |-> call.headerStyled,
                         raised |-> FALSE, calls |-> call.calls,
                         result |-> call.result])
    /\ UNCHANGED <<writers, apiKey, credentials, classifyVars, rules, ijLog,
                   pipelineVars>>

NextInitSheet == InitializeSheetCall

SpecInitSheet == InitInitSheet /\ [][NextInitSheet]_vars

\* the write requests among the store calls of one call
WriteCalls(entry) ==
    SelectSeq(entry.calls, LAMBDA call : call \in {"update A1:H1", "batchUpdate repeatCell"})

\* C22: initializeSheet writes the 8-column header and its styling only when
\* the first row is empty; on a store that has a first row it makes no write,
\* so calling it again, any number of times, leaves the store as the first
\* successful call left it.
C22_InitializeSheetIdempotent ==
    \A k \in 1..Len(sheetInits) :
        LET entry == sheetInits[k]
        IN  /\ Len(entry.before) > 0 =>
                  /\ WriteCalls(entry) = <<>>
                  /\ entry.after = entry.before
                  /\ entry.styledAfter = entry.styledBefore
            /\ (Len(entry.before) = 0 /\ ~entry.raised /\ entry.result.success) =>
                  /\ entry.after = <<headers>>
                  /\ Len(headers) = 8
                  /\ entry.styledAfter
                  /\ WriteCalls(entry) = <<"update A1:H1", "batchUpdate repeatCell">>
            /\ (~entry.raised /\ entry.result.success) =>
                  \A later \in (k + 1)..Len(sheetInits) :
                      /\ sheetInits[later].after = entry.after
                      /\ sheetInits[later].styledAfter = entry.styledAfter

\* a call on an empty sheet wrote and styled the header, and two more calls,
\* one of them on a sheet whose read failed, changed nothing
C22_Witness ==
    /\ Len(sheetInits) = 3
    /\ credentials
    /\ sheetInits[1].before = <<>>
    /\ sheetInits[1].result.success
    /\ sheetInits[1].after = <<headers>>
    /\ sheetInits[2].fault = "none" /\ sheetInits[3].fault = "initGet"
    /\ WriteCalls(sheetInits[2]) = <<>>
    /\ sheet = <<headers>>

----------------------------------------------------------------------------
(* SpecTermination: one classifyAndInsertInBatches run for any batch size,    *)
(* zero included, with chunkArray's loop taken one turn at a time. The run is *)
(* one async function on the event loop: a step that can be taken is taken.   *)

\* the loop index left where it is
nextChunkIndexStuck(index, size) == index

\* line 280: i += size
nextChunkIndex(index, size) == index + size

InitTermination ==
    /\ apiKey \in BOOLEAN
    /\ credentials \in BOOLEAN
    /\ sheet = <<>>
    /\ rules = <<>>
    /\ headerStyled = FALSE
    /\ ijLog = NoInsertCalls
    /\ writers = NoWriters
    /\ sheetInits = NoSheetInits
    /\ ClassifyIdle
    /\ pc = "start"
    /\ jobs \in ListsUpTo(PipelinePostings, MaxJobs)
    /\ batchSize \in 0..MaxBatchSize
    /\ batches = <<>>
    /\ b = 0
    /\ i = 0
    /\ classifiedBatch = <<>>
    /\ allResults = <<>>
    /\ outcome = [kind |-> "running"]
    /\ events = <<>>

(* lines 278-284 and 290: one turn of chunkArray's loop, or its end and the   *)
(* loop test of the scheduler. A loop that does not advance is followed for   *)
(* MaxJobs + 1 chunks; in the code it goes on until memory runs out.          *)
ChunkStep ==
    /\ pc = "start"
    /\ IF i < Len(jobs)
       THEN /\ Len(batches) <= MaxJobs
            /\ batches' = Append(batches, slice(jobs, i, i + batchSize))
            /\ i' = nextChunkIndex(i, batchSize)
            /\ pc' = "start"
       ELSE /\ i' = 0
            /\ pc' = IF Len(batches) > 0 THEN "classify" ELSE "return"
            /\ UNCHANGED batches
    /\ UNCHANGED <<sheetInits, writers, apiKey, credentials, classifyVars, storeVars,
                   jobs, batchSize, b, classifiedBatch, allResults, outcome, events>>

NextTermination == ChunkStep \/ ClassifyPosting \/ InsertBatch \/ ReturnResults

SpecTermination ==
    InitTermination /\ [][NextTermination]_vars /\ WF_vars(NextTermination)

\* each posting position is classified at most once, each batch handed over
\* at most once
AtMostOnce ==
    /\ Cardinality(EventsNamed("classify")) <= Len(jobs)
    /\ \A m, n \in EventsNamed("classify") :
          (events[m].b = events[n].b /\ events[m].i = events[n].i) => m = n
    /\ \A m, n \in EventsNamed("insert") : events[m].b = events[n].b => m = n
    /\ Len(ijLog) = Cardinality(EventsNamed("insert"))
    /\ Len(ijLog) <= Len(batches)

\* C27: for every finite posting list and batch size B >= 1 a run eventually
\* finishes, returning or raising, whatever classification and persistence
\* calls fail, after at most one classification call per posting and one
\* insertJobs call per batch; with B = 0 and a non-empty list the partition
\* step never finishes.
C27_RunTerminates ==
    /\ [](batchSize >= 1 => AtMostOnce)
    /\ []((batchSize = 0 /\ jobs /= <<>>) => pc = "start")
    /\ (batchSize >= 1) ~> (pc = "done" /\ outcome.kind \in {"returned", "raised"})

\* a run of three postings in batches of two finished although a
\* classification call and the insertJobs call failed
C27_Witness ==
    /\ pc = "done"
    /\ Len(jobs) = 3 /\ batchSize = 2
    /\ outcome.kind = "raised"
    /\ EventsNamed("classifyError") /= {}
    /\ Cardinality(EventsNamed("classify")) = 2
    /\ Len(ijLog) = 1
    /\ InsertFailed(ijLog[1])

====
